---------------------------- MODULE Spec2Model ----------------------------
(***************************************************************************)
(* Model of app.py: a Flask URL shortener backed by one SQLAlchemy table.  *)
(*                                                                         *)
(* The table URL is a sequence of rows in rowid order.  Request handlers   *)
(* run on a pool of workers; a handler's statements that touch the         *)
(* database (a query, a commit) are separate atomic steps, so handlers of  *)
(* different workers interleave between them.                              *)
(*                                                                         *)
(* Strings are TLA+ strings; prefixes and slices are computed with Len     *)
(* and SubSeq as the Python code computes them.  The column created_at is  *)
(* written once by the INSERT and read by no handler; it is left out.      *)
(***************************************************************************)
EXTENDS Integers, Sequences, FiniteSets, TLC

(***************************************************************************)
(* Bounds of the model.                                                    *)
(***************************************************************************)
NumWorkers == 2
MaxRequests == 4

Workers == 1..NumWorkers

(***************************************************************************)
(* Inputs.                                                                 *)
(***************************************************************************)
\* JSON bodies posted to /shorten: the key "url" present with a string
\* (empty, wrong scheme, http, https) or absent.
Bodies ==
    { [url |-> s] : s \in {"", "ftp://a", "http://a", "https://a"} }
        \cup { [other |-> "x"] }

\* Values shortuuid.uuid() may return: 22 characters of its alphabet.  The
\* first two agree on their first 7 characters, the third differs from them
\* in the 7th character only.
Uuids ==
    { "aaaaaaaBCDEFGHJKLMNPQR",
      "aaaaaaaZYXWVUTSRQPNMLK",
      "aaaaaabBCDEFGHJKLMNPQR" }

\* Path segments requested with GET /<short_id>.
Paths == { "aaaaaaa", "aaaaaab", "aaaaaac", "zzzzzzz" }

\* request.host_url
HostUrl == "http://h/"

(***************************************************************************)
(* Program constants.                                                      *)
(***************************************************************************)
ShortIdLen == 7

(***************************************************************************)
(* State.                                                                  *)
(***************************************************************************)
VARIABLES
    urls,      \* the rows of table URL, in rowid order
    pc,        \* pc[w]: where worker w is in its handler
    req,       \* req[w]: the request worker w is handling / handled last
    new_url,   \* new_url[w]: the URL object added to w's session, not yet committed
    resp,      \* resp[w]: the response to req[w], once sent
    prior,     \* history: the short ids already returned for req[w]'s url when it arrived
    issued,    \* history: the (long_url, short_id) pairs returned by creation requests
    nreq       \* history: number of requests received so far (bounded by MaxRequests)

vars == <<urls, pc, req, new_url, resp, prior, issued, nreq>>

NoRequest == [route |-> "none"]
NoObject == [none |-> TRUE]
NoResponse == [status |-> 0]

(***************************************************************************)
(* Pure helpers.                                                           *)
(***************************************************************************)
\* str.startswith(prefix)
StartsWith(s, prefix) ==
    /\ Len(s) >= Len(prefix)
    /\ SubSeq(s, 1, Len(prefix)) = prefix

\* long_url.startswith(('http://', 'https://'))
HasScheme(s) == StartsWith(s, "http://") \/ StartsWith(s, "https://")

\* Faulty variant of Validate: the scheme check made before the empty check.
ValidateSwapped(data) ==
    IF "url" \in DOMAIN data /\ ~HasScheme(data.url) THEN "scheme"
    ELSE IF "url" \notin DOMAIN data \/ data.url = "" THEN "missing"
    ELSE "ok"

\* Faulty variant of Validate: the scheme check left out.
ValidateNoScheme(data) ==
    IF "url" \notin DOMAIN data \/ data.url = "" THEN "missing" ELSE "ok"

\* The checks of shorten_url on the posted body, in the order of the code:
\* `not long_url` (None or empty), then the scheme prefix.
Validate(data) ==
    IF "url" \notin DOMAIN data \/ data.url = "" THEN "missing"
    ELSE IF ~HasScheme(data.url) THEN "scheme"
    ELSE "ok"

\* Faulty variant of FilterByLongUrl: the filter left out (URL.query).
FilterByLongUrlAll(table, long_url) == table

\* URL.query.filter_by(long_url=long_url): exact string equality.

FilterByLongUrl(table, long_url) ==
    SelectSeq(table, LAMBDA r : r.long_url = long_url)

\* Faulty variant of FilterByShortId: a prefix match on the first 6 characters.
FilterByShortIdPrefix(table, short_id) ==
    SelectSeq(table, LAMBDA r :
        /\ Len(short_id) >= ShortIdLen - 1
        /\ SubSeq(r.short_id, 1, ShortIdLen - 1) = SubSeq(short_id, 1, ShortIdLen - 1))

\* URL.query.filter_by(short_id=short_id): exact string equality.
FilterByShortId(table, short_id) ==
    SelectSeq(table, LAMBDA r : r.short_id = short_id)

\* Query.first(): the first matching row, or None.
First(rows) == IF rows = <<>> THEN NoObject ELSE Head(rows)

\* URL(long_url): the short id is the first 7 characters of a fresh uuid.
NewURL(long_url, uuid) ==
    [short_id |-> SubSeq(uuid, 1, ShortIdLen), long_url |-> long_url]

\* unique=True on URL.short_id
UniqueViolation(table, obj) ==
    \E i \in 1..Len(table) : table[i].short_id = obj.short_id

\* The row an INSERT of obj creates: the primary key is the next rowid.
Row(table, obj) ==
    [id |-> Len(table) + 1, short_id |-> obj.short_id, long_url |-> obj.long_url]

\* Faulty variant of Commit: short_id without the unique constraint.
CommitNoConstraint(table, obj) ==
    [ok |-> TRUE, table |-> Append(table, Row(table, obj))]

\* Faulty variant of Commit: the IntegrityError is caught and ignored.
CommitSwallow(table, obj) ==
    IF UniqueViolation(table, obj)
    THEN [ok |-> TRUE, table |-> table]
    ELSE [ok |-> TRUE, table |-> Append(table, Row(table, obj))]

\* Faulty variant of Commit: INSERT OR REPLACE on the short id.
CommitUpsert(table, obj) ==
    IF UniqueViolation(table, obj)
    THEN [ok |-> TRUE,
          table |-> [i \in 1..Len(table) |->
                        IF table[i].short_id = obj.short_id
                        THEN [table[i] EXCEPT !.long_url = obj.long_url]
                        ELSE table[i]]]
    ELSE [ok |-> TRUE, table |-> Append(table, Row(table, obj))]

\* db.session.commit() with obj pending: the INSERT either raises
\* IntegrityError and nothing is written (the session is rolled back), or
\* appends the row.
Commit(table, obj) ==
    IF UniqueViolation(table, obj)
    THEN [ok |-> FALSE, table |-> table]
    ELSE [ok |-> TRUE, table |-> Append(table, Row(table, obj))]

(***************************************************************************)
(* Responses.                                                              *)
(***************************************************************************)
MissingUrl == [status |-> 400, json |-> [error |-> "Missing 'url' parameter"]]

BadScheme ==
    [status |-> 400, json |-> [error |-> "URL must start with http:// or https://"]]

AlreadyShortened(short_id) ==
    [status |-> 200,
     json |-> [short_id |-> short_id,
               short_url |-> HostUrl \o short_id,
               message |-> "URL already shortened"]]

Created(short_id) ==
    [status |-> 201,
     json |-> [short_id |-> short_id, short_url |-> HostUrl \o short_id]]

Redirect(location) == [status |-> 302, location |-> location]

NotFound == [status |-> 404, json |-> [error |-> "Short URL not found"]]

\* An exception that leaves the handler: Flask answers 500.
Unhandled(exception) == [status |-> 500, exception |-> exception]

(***************************************************************************)
(* Initial state: the table was just created by db.create_all().           *)
(***************************************************************************)
Init ==
    /\ urls = <<>>
    /\ pc = [w \in Workers |-> "idle"]
    /\ req = [w \in Workers |-> NoRequest]
    /\ new_url = [w \in Workers |-> NoObject]
    /\ resp = [w \in Workers |-> NoResponse]
    /\ prior = [w \in Workers |-> {}]
    /\ issued = {}
    /\ nreq = 0

IssuedFor(long_url) == { p.short_id : p \in { q \in issued : q.long_url = long_url } }

(***************************************************************************)
(* POST /shorten                                                           *)
(***************************************************************************)
\* Lines 66-74: read the body and validate it.
ShortenValidate(w, data) ==
    /\ pc[w] = "idle"
    /\ nreq < MaxRequests
    /\ nreq' = nreq + 1
    /\ req' = [req EXCEPT ![w] = [route |-> "shorten", data |-> data]]
    /\ new_url' = [new_url EXCEPT ![w] = NoObject]
    /\ prior' = [prior EXCEPT ![w] =
                    IF "url" \in DOMAIN data THEN IssuedFor(data.url) ELSE {}]
    /\ LET v == Validate(data) IN
         IF v = "missing"
         THEN /\ resp' = [resp EXCEPT ![w] = MissingUrl]
              /\ pc' = pc
         ELSE IF v = "scheme"
         THEN /\ resp' = [resp EXCEPT ![w] = BadScheme]
              /\ pc' = pc
         ELSE /\ resp' = [resp EXCEPT ![w] = NoResponse]
              /\ pc' = [pc EXCEPT ![w] = "query"]
    /\ UNCHANGED <<urls, issued>>

\* Lines 77-83: look the url up; answer 200 with the existing short id.
ShortenQuery(w) ==
    /\ pc[w] = "query"
    /\ LET long_url == req[w].data.url
           existing_url == First(FilterByLongUrl(urls, long_url))
       IN IF existing_url # NoObject
          THEN /\ resp' = [resp EXCEPT ![w] = AlreadyShortened(existing_url.short_id)]
               /\ issued' = issued \cup
                    {[long_url |-> long_url, short_id |-> existing_url.short_id]}
               /\ pc' = [pc EXCEPT ![w] = "idle"]
          ELSE /\ pc' = [pc EXCEPT ![w] = "construct"]
               /\ UNCHANGED <<resp, issued>>
    /\ UNCHANGED <<urls, req, new_url, prior, nreq>>

\* Lines 86-87: build the URL object with a random short id, add it to the session.
ShortenConstruct(w, uuid) ==
    /\ pc[w] = "construct"
    /\ new_url' = [new_url EXCEPT ![w] = NewURL(req[w].data.url, uuid)]
    /\ pc' = [pc EXCEPT ![w] = "commit"]
    /\ UNCHANGED <<urls, req, resp, prior, issued, nreq>>

\* Lines 88-93: commit; answer 201, or fail with the IntegrityError of the INSERT.
ShortenCommit(w) ==
    /\ pc[w] = "commit"
    /\ LET c == Commit(urls, new_url[w]) IN
         /\ urls' = c.table
         /\ IF c.ok
            THEN /\ resp' = [resp EXCEPT ![w] = Created(new_url[w].short_id)]
                 /\ issued' = issued \cup
                      {[long_url |-> req[w].data.url, short_id |-> new_url[w].short_id]}
            ELSE /\ resp' = [resp EXCEPT ![w] = Unhandled("IntegrityError")]
                 /\ UNCHANGED issued
    /\ pc' = [pc EXCEPT ![w] = "idle"]
    /\ UNCHANGED <<req, new_url, prior, nreq>>

(***************************************************************************)
(* GET /<short_id>                                                         *)
(***************************************************************************)
\* The answer of redirect_to_long_url on a table.
Resolve(table, short_id) ==
    LET url_entry == First(FilterByShortId(table, short_id))
    IN IF url_entry # NoObject THEN Redirect(url_entry.long_url) ELSE NotFound

\* Lines 100-107.
RedirectToLongUrl(w, short_id) ==
    /\ pc[w] = "idle"
    /\ nreq < MaxRequests
    /\ nreq' = nreq + 1
    /\ req' = [req EXCEPT ![w] = [route |-> "redirect", short_id |-> short_id]]
    /\ new_url' = [new_url EXCEPT ![w] = NoObject]
    /\ prior' = [prior EXCEPT ![w] = {}]
    /\ resp' = [resp EXCEPT ![w] = Resolve(urls, short_id)]
    /\ UNCHANGED <<urls, pc, issued>>

Next ==
    \/ \E w \in Workers, data \in Bodies : ShortenValidate(w, data)
    \/ \E w \in Workers : ShortenQuery(w)
    \/ \E w \in Workers, uuid \in Uuids : ShortenConstruct(w, uuid)
    \/ \E w \in Workers : ShortenCommit(w)
    \/ \E w \in Workers, short_id \in Paths : RedirectToLongUrl(w, short_id)

Spec == Init /\ [][Next]_vars

(***************************************************************************)
(* Properties.                                                             *)
(***************************************************************************)
IssuedIds == { p.short_id : p \in issued }

RowsWith(short_id) == { i \in 1..Len(urls) : urls[i].short_id = short_id }

\* C1: round trip.  Every (long_url, short_id) pair a successful creation
\* request has returned (201 or 200) resolves, in every later state, to a
\* 302 redirect whose target is exactly that long_url.
C1_RoundTrip ==
    \A p \in issued : Resolve(urls, p.short_id) = Redirect(p.long_url)

\* C1 witness: two urls were shortened, one of them twice (201 then 200),
\* and a worker has resolved an issued short id and was redirected.
C1_Witness ==
    /\ Cardinality(issued) >= 2
    /\ \E w \in Workers : resp[w].status = 200
    /\ \E w \in Workers, p \in issued :
         /\ req[w] = [route |-> "redirect", short_id |-> p.short_id]
         /\ resp[w] = Redirect(p.long_url)

\* C2: for one long_url submitted by concurrent creation requests, the
\* table holds at most one row with that long_url.
C2_AtMostOneRecordPerUrl ==
    \A i, j \in 1..Len(urls) : urls[i].long_url = urls[j].long_url => i = j

\* C3: in every reachable state no two rows of the table have the same
\* short_id.
C3_ShortCodeUnique ==
    \A i, j \in 1..Len(urls) : urls[i].short_id = urls[j].short_id => i = j

\* C3 witness: two rows are stored and a creation request that drew an
\* already stored short id was rejected by the store.
C3_Witness ==
    /\ Len(urls) >= 2
    /\ \E w \in Workers :
         /\ resp[w] = Unhandled("IntegrityError")
         /\ RowsWith(new_url[w].short_id) # {}

\* C4: when the store rejects the insert because the short id exists, the
\* request goes back to generating a new candidate, or (bound exhausted)
\* fails with AllocationExhausted.
C4_RetryOnCollision ==
    [][\A w \in Workers :
          (ShortenCommit(w) /\ UniqueViolation(urls, new_url[w]))
             => \/ pc'[w] = "construct"
                \/ resp'[w] = Unhandled("AllocationExhausted")]_vars

\* C5: a creation request that arrives after an earlier creation request
\* for the same url has completed successfully answers 200 with the short
\* id the earlier request returned.
C5_SequentialIdempotence ==
    \A w \in Workers :
        (pc[w] = "idle" /\ req[w].route = "shorten" /\ prior[w] # {})
           => /\ resp[w].status = 200
              /\ prior[w] = {resp[w].json.short_id}

\* C6: a creation request whose url is absent or empty is answered 400
\* "Missing 'url' parameter"; one whose non-empty url starts with neither
\* http:// nor https:// is answered 400 with the scheme message; the empty
\* check wins over the scheme check; the table is unchanged in both cases.
C6_InputRejection ==
    [][\A w \in Workers, data \in Bodies :
          ShortenValidate(w, data)
             => /\ ("url" \notin DOMAIN data \/ data.url = "")
                      => (resp'[w] = MissingUrl /\ pc'[w] = "idle" /\ urls' = urls)
                /\ ("url" \in DOMAIN data /\ data.url # "" /\ ~HasScheme(data.url))
                      => (resp'[w] = BadScheme /\ pc'[w] = "idle" /\ urls' = urls)]_vars

\* C6 witness: with a row stored, one worker was answered "missing" for the
\* empty url and another the scheme message for an ftp url.
C6_Witness ==
    /\ Len(urls) >= 1
    /\ \E w \in Workers :
         req[w] = [route |-> "shorten", data |-> [url |-> ""]] /\ resp[w] = MissingUrl
    /\ \E w \in Workers :
         req[w] = [route |-> "shorten", data |-> [url |-> "ftp://a"]] /\ resp[w] = BadScheme

\* C7: a short id no creation request has returned resolves to 404 "Short
\* URL not found" in every reachable state, and every redirect request for
\* such an id was answered so; near misses of stored ids do not match.
C7_NeverIssuedNotFound ==
    /\ \A s \in Paths : s \notin IssuedIds => Resolve(urls, s) = NotFound
    /\ \A w \in Workers :
         (req[w].route = "redirect" /\ req[w].short_id \notin IssuedIds)
            => resp[w] = NotFound

\* C7 witness: short ids differing from the requested one in the last
\* character only are stored, and the request was answered 404.
C7_Witness ==
    /\ RowsWith("aaaaaaa") # {}
    /\ RowsWith("aaaaaab") # {}
    /\ \E w \in Workers :
         /\ req[w] = [route |-> "redirect", short_id |-> "aaaaaac"]
         /\ resp[w] = NotFound

\* C8: the step that ends a creation request with 201 appends exactly one
\* row (the url and short id of the answer) and keeps every other row; the
\* step that ends one with 200, and every step of a request still in
\* progress, leaves the table unchanged.
C8_CreationEffect ==
    [][\A w \in Workers :
          pc'[w] # pc[w]
             => IF pc'[w] = "idle" /\ resp'[w].status = 201
                THEN /\ Len(urls') = Len(urls) + 1
                     /\ SubSeq(urls', 1, Len(urls)) = urls
                     /\ urls'[Len(urls')].short_id = resp'[w].json.short_id
                     /\ urls'[Len(urls')].long_url = req[w].data.url
                ELSE (pc'[w] # "idle" \/ resp'[w].status = 200) => urls' = urls]_vars

\* C8 witness: one worker ended with 201 and another with a dedup hit 200,
\* with a single row stored.
C8_Witness ==
    /\ Len(urls) = 1
    /\ \E w \in Workers : pc[w] = "idle" /\ resp[w].status = 201
    /\ \E w \in Workers : pc[w] = "idle" /\ resp[w].status = 200

\* C9: every stored long_url is non-empty and starts with http:// or
\* https://.
C9_StoredUrlsValid ==
    \A i \in 1..Len(urls) :
        /\ urls[i].long_url # ""
        /\ HasScheme(urls[i].long_url)

\* C9 witness: an http and an https url are stored and a request with an
\* ftp url has been handled.
C9_Witness ==
    /\ \E i \in 1..Len(urls) : urls[i].long_url = "http://a"
    /\ \E i \in 1..Len(urls) : urls[i].long_url = "https://a"
    /\ \E w \in Workers :
         req[w] = [route |-> "shorten", data |-> [url |-> "ftp://a"]] /\ pc[w] = "idle"

\* C10: every step keeps every stored row (same id, short_id, long_url, same
\* position), and a redirect request, found or not, leaves the table
\* unchanged.
C10_RecordsImmutable ==
    [][/\ Len(urls') >= Len(urls)
       /\ SubSeq(urls', 1, Len(urls)) = urls
       /\ \A w \in Workers, s \in Paths :
            RedirectToLongUrl(w, s) => urls' = urls]_vars

\* C10 witness: two rows are stored and redirect requests were answered 302
\* (for the first row) and 404.
C10_Witness ==
    /\ Len(urls) >= 2
    /\ \E w \in Workers : resp[w] = Redirect(urls[1].long_url)
    /\ \E w \in Workers : resp[w] = NotFound

=============================================================================
